---- MODULE Spec2Model ----
(***************************************************************************)
(* Model of OLD_lot_size_regression_analysis.py: a one-pass script that    *)
(* fits three nested linear models to a table of comparable sales, prints  *)
(* each model's statistics as soon as it is fitted, analyses the residuals *)
(* of the richest model, compares a percentage-based lot adjustment with   *)
(* the regression-based one and prints a verdict.                          *)
(*                                                                         *)
(* Numbers.  The script computes in IEEE-754 doubles (numpy float64).  A   *)
(* number is modelled as a pair <<n, d>>: a reduced fraction n/d with      *)
(* d > 0 for a finite value, <<1,0>> for +inf, <<-1,0>> for -inf and       *)
(* <<0,0>> for NaN.  Division by zero, inf - inf, 0 * inf and comparisons  *)
(* with NaN behave as numpy's do (a RuntimeWarning, no exception); the     *)
(* rounding of finite results is not modelled.                             *)
(***************************************************************************)
EXTENDS Integers, Sequences, FiniteSets, TLC

\* ---------------------------------------------------------------- numbers

Abs(x) == IF x < 0 THEN -x ELSE x

Sgn(x) == IF x < 0 THEN -1 ELSE IF x > 0 THEN 1 ELSE 0

RECURSIVE GCD(_, _)
GCD(a, b) == IF b = 0 THEN a ELSE GCD(b, a % b)

\* the canonical form of the fraction n/d (d = 0: +inf, -inf or NaN)
Norm(n, d) ==
    IF d = 0 THEN <<Sgn(n), 0>>
    ELSE LET g == GCD(Abs(n), Abs(d))
             s == Sgn(d)
         IN  <<(s * n) \div g, (s * d) \div g>>

R(i) == <<i, 1>>

NaN == <<0, 0>>

IsNaN(a) == a = NaN

IsFinite(a) == a[2] # 0

Neg(a) == <<-a[1], a[2]>>

Add(a, b) ==
    IF a[2] = 0 /\ b[2] = 0
    THEN (IF a = b THEN a ELSE NaN)
    ELSE Norm(a[1] * b[2] + b[1] * a[2], a[2] * b[2])

Sub(a, b) == Add(a, Neg(b))

Mul(a, b) == Norm(a[1] * b[1], a[2] * b[2])

\* numpy true division: x/0 is +-inf, 0/0 and inf/inf are NaN
Div(a, b) == Norm(a[1] * b[2], a[2] * b[1])

Lt(a, b) ==
    /\ ~IsNaN(a)
    /\ ~IsNaN(b)
    /\ IF a[2] = 0 /\ b[2] = 0 THEN a[1] < b[1]
       ELSE a[1] * b[2] < b[1] * a[2]

Leq(a, b) ==
    /\ ~IsNaN(a)
    /\ ~IsNaN(b)
    /\ IF a[2] = 0 /\ b[2] = 0 THEN a[1] <= b[1]
       ELSE a[1] * b[2] <= b[1] * a[2]

\* the sequence f as an explicit tuple: each element is computed once, here,
\* and not again at every later f[i]
Tup(f) == f \o <<>>

RECURSIVE SeqSum(_)
SeqSum(s) == IF s = <<>> THEN 0 ELSE Head(s) + SeqSum(Tail(s))

RECURSIVE RatSum(_)
RatSum(s) == IF s = <<>> THEN R(0) ELSE Add(Head(s), RatSum(Tail(s)))

\* np.mean of a sequence of numbers
Mean(s) == Div(RatSum(s), R(Len(s)))

RECURSIVE Insert(_, _)
Insert(x, s) ==
    IF s = <<>> THEN <<x>>
    ELSE IF Leq(x, Head(s)) THEN <<x>> \o s
    ELSE <<Head(s)>> \o Insert(x, Tail(s))

RECURSIVE Sorted(_)
Sorted(s) == IF s = <<>> THEN <<>> ELSE Insert(Head(s), Sorted(Tail(s)))

\* pandas Series.median(): the middle value, or the mean of the two middle ones
Median(s) ==
    LET t == Sorted(s)
        n == Len(s)
    IN  IF n % 2 = 1 THEN t[(n + 1) \div 2]
        ELSE Div(Add(t[n \div 2], t[n \div 2 + 1]), R(2))

\* ------------------------------------------------------------ the dataset

\* the sales the bounded datasets are drawn from: building_sqft, lot_sqft and
\* price are positive, as in every row of the script's table
Comps ==
    { [building_sqft |-> 1, lot_sqft |-> 1, price |-> 100, renovated |-> FALSE],
      [building_sqft |-> 2, lot_sqft |-> 1, price |-> 300, renovated |-> FALSE],
      [building_sqft |-> 1, lot_sqft |-> 2, price |-> 200, renovated |-> FALSE],
      [building_sqft |-> 1, lot_sqft |-> 1, price |-> 400, renovated |-> TRUE],
      [building_sqft |-> 1, lot_sqft |-> 2, price |-> 400, renovated |-> FALSE] }

MinObs == 2

MaxObs == 4

Datasets == UNION { [1..n -> Comps] : n \in MinObs..MaxObs }

\* the column a predictor name selects, as np.column_stack receives it
\* (df['renovated'].astype(int): True is 1, False is 0)
Column(obs, name) ==
    IF name = "renovated" THEN (IF obs.renovated THEN 1 ELSE 0) ELSE obs[name]

\* np.column_stack([np.ones(len(df)), X]): the intercept column first, then
\* the predictors in the order they are listed
DesignRow(obs, predictors) ==
    <<1>> \o [j \in 1..Len(predictors) |-> Column(obs, predictors[j])]

Design(data, predictors) ==
    Tup([i \in 1..Len(data) |-> DesignRow(data[i], predictors)])

Prices(data) == Tup([i \in 1..Len(data) |-> data[i].price])

\* --------------------------------------------------------- linear algebra

Identity(k) == Tup([i \in 1..k |-> Tup([j \in 1..k |-> IF i = j THEN 1 ELSE 0])])

MatMul(A, B, k) ==
    Tup([i \in 1..k |->
        Tup([j \in 1..k |-> SeqSum([t \in 1..k |-> A[i][t] * B[t][j]])])])

MatAddScaled(A, a, k) ==
    Tup([i \in 1..k |-> Tup([j \in 1..k |-> A[i][j] + (IF i = j THEN a ELSE 0)])])

Trace(A, k) == SeqSum([i \in 1..k |-> A[i][i]])

\* X^T X and X^T y of a design X (rows of integers) and targets y
Gram(X, k) ==
    Tup([i \in 1..k |->
        Tup([j \in 1..k |-> SeqSum([r \in 1..Len(X) |-> X[r][i] * X[r][j]])])])

Moment(X, y, k) ==
    Tup([i \in 1..k |-> SeqSum([r \in 1..Len(X) |-> X[r][i] * y[r]])])

\* Faddeev-LeVerrier: the pairs <<M_j, a_j>>, j = from..k, where
\* lambda^k + a_1 lambda^(k-1) + ... + a_k is the characteristic polynomial of G
\* and M_1 = I, M_(j+1) = G M_j + a_j I
RECURSIVE LeVerrier(_, _, _, _)
LeVerrier(G, k, from, M) ==
    LET GM == MatMul(G, M, k)
        a  == -(Trace(GM, k) \div from)
    IN  IF from = k THEN << <<M, a>> >>
        ELSE << <<M, a>> >> \o LeVerrier(G, k, from + 1, MatAddScaled(GM, a, k))

\* np.linalg.lstsq(X, y, rcond=None): the least-squares solution of X b = y,
\* the one of minimum norm when X is rank-deficient, and the rank of X.  With
\* G = X^T X of rank r, b = -(M_r X^T y) / a_r (for r = k, the inverse of G by
\* Cayley-Hamilton; for r < k, the pseudo-inverse of G on its range).
Lstsq(X, y) ==
    LET k  == Len(X[1])
        G  == Gram(X, k)
        c  == Moment(X, y, k)
        fl == LeVerrier(G, k, 1, Identity(k))
        r  == CHOOSE j \in 1..k :
                  /\ fl[j][2] # 0
                  /\ \A t \in (j + 1)..k : fl[t][2] = 0
        M  == fl[r][1]
        a  == fl[r][2]
    IN  [x    |-> Tup([i \in 1..k |->
                     Norm(-SeqSum([t \in 1..k |-> M[i][t] * c[t]]), a)]),
         rank |-> r]

\* X @ coefficients
Predict(X, coef) ==
    Tup([i \in 1..Len(X) |->
        RatSum([j \in 1..Len(coef) |-> Mul(R(X[i][j]), coef[j])])])

Square(a) == Mul(a, a)

\* np.sum((y - y_pred) ** 2)
SumSqDiff(y, pred) ==
    RatSum([i \in 1..Len(y) |-> Square(Sub(R(y[i]), pred[i]))])

\* 1 - (ss_res / ss_tot), with ss_tot = np.sum((y - np.mean(y)) ** 2)
RSquared(y, pred) ==
    LET ybar   == Mean([i \in 1..Len(y) |-> R(y[i])])
        ss_res == SumSqDiff(y, pred)
        ss_tot == SumSqDiff(y, [i \in 1..Len(y) |-> ybar])
    IN  Sub(R(1), Div(ss_res, ss_tot))

\* linregress with x and y exchanged in the slope: ssxym / ssym
LinregressSwapped(x, y) ==
    LET n     == Len(x)
        xs    == Tup([i \in 1..n |-> R(x[i])])
        ys    == Tup([i \in 1..n |-> R(y[i])])
        xmean == Mean(xs)
        ymean == Mean(ys)
        ssxm  == Mean([i \in 1..n |-> Square(Sub(xs[i], xmean))])
        ssym  == Mean([i \in 1..n |-> Square(Sub(ys[i], ymean))])
        ssxym == Mean([i \in 1..n |-> Mul(Sub(xs[i], xmean), Sub(ys[i], ymean))])
        slope == Div(ssxym, ssym)
    IN  [slope      |-> slope,
         intercept  |-> Sub(ymean, Mul(slope, xmean)),
         r_value_sq |-> IF ssxm = R(0) \/ ssym = R(0) THEN R(0)
                        ELSE Div(Square(ssxym), Mul(ssxm, ssym))]

\* scipy.stats.linregress(x, y) when it returns: slope = ssxym / ssxm,
\* intercept = ymean - slope * xmean, and r = 0 when ssxm or ssym is 0, else
\* ssxym / sqrt(ssxm * ssym).  r is kept squared (the script only uses
\* r_value**2); p_value and std_err are not tracked.
Linregress(x, y) ==
    LET n     == Len(x)
        xs    == Tup([i \in 1..n |-> R(x[i])])
        ys    == Tup([i \in 1..n |-> R(y[i])])
        xmean == Mean(xs)
        ymean == Mean(ys)
        ssxm  == Mean([i \in 1..n |-> Square(Sub(xs[i], xmean))])
        ssym  == Mean([i \in 1..n |-> Square(Sub(ys[i], ymean))])
        ssxym == Mean([i \in 1..n |-> Mul(Sub(xs[i], xmean), Sub(ys[i], ymean))])
        slope == Div(ssxym, ssxm)
    IN  [slope      |-> slope,
         intercept  |-> Sub(ymean, Mul(slope, xmean)),
         r_value_sq |-> IF ssxm = R(0) \/ ssym = R(0) THEN R(0)
                        ELSE Div(Square(ssxym), Mul(ssxm, ssym))]

\* all x values identical: linregress has no slope to give
AllIdentical(x) == \A i \in 1..Len(x) : x[i] = x[1]

\* ------------------------------------------------- the script's formulas

Model1Predictors == <<"lot_sqft">>

Model2Predictors == <<"building_sqft", "lot_sqft">>

Model3Predictors == <<"building_sqft", "lot_sqft", "renovated">>

\* lot_coef = coefficients[2] (0-based) of Model 2
LotCoef(coef) == coef[3]

\* the building coefficient taken for the lot coefficient (index 1 for 2)
BuildingCoefReno(coef) == coef[2]

\* lot_coef_reno = coefficients_reno[2] (0-based) of Model 3
LotCoefReno(coef) == coef[3]

\* the residuals with the sign reversed: y_pred_reno - y
ResidualsReversed(y, pred) == Tup([j \in 1..Len(y) |-> Sub(pred[j], R(y[j]))])

\* residuals_values = y - y_pred_reno
Residuals(y, pred) == Tup([j \in 1..Len(y) |-> Sub(R(y[j]), pred[j])])

\* pct_error = (residual / actual) * 100
PctError(residual, actual) == Mul(Div(residual, R(actual)), R(100))

\* np.mean(residuals_values ** 2): rmse is its square root, which is finite
\* exactly when it is
MeanSquare(res) == Mean([j \in 1..Len(res) |-> Square(res[j])])

\* np.mean(np.abs(residuals_values))
MeanAbs(res) ==
    Mean([j \in 1..Len(res) |-> IF Lt(res[j], R(0)) THEN Neg(res[j]) ELSE res[j]])

\* typical_base_value = median_building * median_price_per_sqft
TypicalBaseValue(data) ==
    LET median_building == Median([j \in 1..Len(data) |-> R(data[j].building_sqft)])
        median_price_per_sqft ==
            Median([j \in 1..Len(data) |->
                       Div(R(data[j].price), R(data[j].building_sqft))])
    IN  Mul(median_building, median_price_per_sqft)

MedianLot(data) == Median([j \in 1..Len(data) |-> R(data[j].lot_sqft)])

lot_differences == <<-500, -200, 0, 200, 500, 1000>>

\* the percentage method with a sum for the second product
PctAdjustmentSum(d, base) == Add(Div(R(d), R(500)), Mul(<<1, 100>>, base))

\* the percentage method with floor division: diff // 500
PctAdjustmentFloor(d, base) == Mul(Mul(R(d \div 500), <<1, 100>>), base)

\* pct_adjustment = (diff / 500) * 0.01 * typical_base_value
PctAdjustment(d, base) == Mul(Mul(Div(R(d), R(500)), <<1, 100>>), base)

\* reg_adjustment = diff * lot_coef_reno
RegAdjustment(d, coef) == Mul(R(d), coef)

HypothesisLow == 100

HypothesisHigh == 200

\* the comparison with both bounds excluded
HypothesisStrict(c) ==
    IF Lt(R(HypothesisLow), c) /\ Lt(c, R(HypothesisHigh)) THEN "CONFIRMED"
    ELSE IF Lt(c, R(HypothesisLow)) THEN "LOWER"
    ELSE "HIGHER"

\* the if / elif / else on lot_coef_reno
Hypothesis(c) ==
    IF Leq(R(HypothesisLow), c) /\ Leq(c, R(HypothesisHigh)) THEN "CONFIRMED"
    ELSE IF Lt(c, R(HypothesisLow)) THEN "LOWER"
    ELSE "HIGHER"

\* ------------------------------------------------------------- the script

VARIABLES
    df,                 \* the table of sales
    pc,                 \* the statement the script is at
    output,             \* what has been printed: <<section, values>> records
    solver_calls,       \* the fits made so far: <<solver, predictors>>
    slope, intercept, r_value_sq,                    \* Model 1
    coefficients, rank, r_squared,                   \* Model 2
    coefficients_reno, rank_reno, lot_coef_reno,     \* Model 3
    y_pred_reno, r_squared_reno,
    residuals_values, mse, i,                        \* residual analysis
    median_lot, typical_base_value,                  \* the typical property
    k, diff, pct_adjustment, reg_adjustment,         \* the example adjustments
    verdict

model1 == <<slope, intercept, r_value_sq>>

model2 == <<coefficients, rank, r_squared>>

model3 == <<coefficients_reno, rank_reno, lot_coef_reno, y_pred_reno, r_squared_reno>>

analysis == <<residuals_values, mse, i>>

baseline == <<median_lot, typical_base_value>>

loop == <<k, diff, pct_adjustment, reg_adjustment>>

vars == <<df, pc, output, solver_calls, model1, model2, model3, analysis,
          baseline, loop, verdict>>

\* a variable the script has not assigned yet
Unset == <<>>

y == Prices(df)

Printed(section, values) == output \o << [section |-> section, values |-> values] >>

Init ==
    /\ df \in Datasets
    /\ pc = "summary"
    /\ output = <<>>
    /\ solver_calls = <<>>
    /\ slope = Unset /\ intercept = Unset /\ r_value_sq = Unset
    /\ coefficients = Unset /\ rank = 0 /\ r_squared = Unset
    /\ coefficients_reno = Unset /\ rank_reno = 0 /\ lot_coef_reno = Unset
    /\ y_pred_reno = Unset /\ r_squared_reno = Unset
    /\ residuals_values = Unset /\ mse = Unset /\ i = 0
    /\ median_lot = Unset /\ typical_base_value = Unset
    /\ k = 0 /\ diff = 0 /\ pct_adjustment = Unset /\ reg_adjustment = Unset
    /\ verdict = ""

\* lines 38-47: the dataset summary
Summary ==
    /\ pc = "summary"
    /\ LET b == Sorted([j \in 1..Len(df) |-> R(df[j].building_sqft)])
           l == Sorted([j \in 1..Len(df) |-> R(df[j].lot_sqft)])
           p == Sorted([j \in 1..Len(df) |-> R(df[j].price)])
       IN  output' = Printed("summary",
                <<R(Len(df)), b[1], b[Len(df)], l[1], l[Len(df)], p[1], p[Len(df)],
                  Median(b), Median(l)>>)
    /\ pc' = "fit1"
    /\ UNCHANGED <<df, solver_calls, model1, model2, model3, analysis, baseline,
                   loop, verdict>>

\* line 62: stats.linregress(X_lot, y) returns
FitModel1 ==
    /\ pc = "fit1"
    /\ LET fit == Linregress([j \in 1..Len(df) |-> df[j].lot_sqft], y)
       IN  /\ slope' = fit.slope
           /\ intercept' = fit.intercept
           /\ r_value_sq' = fit.r_value_sq
    /\ solver_calls' = Append(solver_calls, <<"linregress", Model1Predictors>>)
    /\ pc' = "print1"
    /\ UNCHANGED <<df, output, model2, model3, analysis, baseline, loop, verdict>>

\* the ValueError of line 62 swallowed: the script goes on without a Model 1
FitModel1RaiseSwallowed ==
    /\ pc = "fit1"
    /\ AllIdentical([j \in 1..Len(df) |-> df[j].lot_sqft])
    /\ solver_calls' = Append(solver_calls, <<"linregress", Model1Predictors>>)
    /\ pc' = "print1"
    /\ UNCHANGED <<df, output, model1, model2, model3, analysis, baseline, loop,
                   verdict>>

\* line 62, on lot sizes that are all identical, with a scipy that raises
\* ValueError there instead of returning NaN: the script ends with a traceback
FitModel1Raises ==
    /\ pc = "fit1"
    /\ AllIdentical([j \in 1..Len(df) |-> df[j].lot_sqft])
    /\ solver_calls' = Append(solver_calls, <<"linregress", Model1Predictors>>)
    /\ pc' = "failed"
    /\ UNCHANGED <<df, output, model1, model2, model3, analysis, baseline, loop,
                   verdict>>

\* lines 64-80: Model 1's statistics and interpretation
PrintModel1 ==
    /\ pc = "print1"
    /\ output' = Printed("model1", <<intercept, slope, r_value_sq>>)
    /\ pc' = "fit2"
    /\ UNCHANGED <<df, solver_calls, model1, model2, model3, analysis, baseline,
                   loop, verdict>>

\* lines 92-108: Model 2 by np.linalg.lstsq, and its R-squared
FitModel2 ==
    /\ pc = "fit2"
    /\ LET X   == Design(df, Model2Predictors)
           fit == Lstsq(X, y)
       IN  /\ coefficients' = fit.x
           /\ rank' = fit.rank
           /\ r_squared' = RSquared(y, Predict(X, fit.x))
    /\ solver_calls' = Append(solver_calls, <<"lstsq", Model2Predictors>>)
    /\ pc' = "print2"
    /\ UNCHANGED <<df, output, model1, model3, analysis, baseline, loop, verdict>>

\* lines 110-120
PrintModel2 ==
    /\ pc = "print2"
    /\ output' = Printed("model2",
            <<coefficients[1], coefficients[2], LotCoef(coefficients), r_squared>>)
    /\ pc' = "fit3"
    /\ UNCHANGED <<df, solver_calls, model1, model2, model3, analysis, baseline,
                   loop, verdict>>

\* lines 132-153: Model 3 by np.linalg.lstsq, its predictions and R-squared
FitModel3 ==
    /\ pc = "fit3"
    /\ LET X   == Design(df, Model3Predictors)
           fit == Lstsq(X, y)
       IN  /\ coefficients_reno' = fit.x
           /\ rank_reno' = fit.rank
           /\ lot_coef_reno' = LotCoefReno(fit.x)
           /\ y_pred_reno' = Predict(X, fit.x)
           /\ r_squared_reno' = RSquared(y, Predict(X, fit.x))
    /\ solver_calls' = Append(solver_calls, <<"lstsq", Model3Predictors>>)
    /\ pc' = "print3"
    /\ UNCHANGED <<df, output, model1, model2, analysis, baseline, loop, verdict>>

\* lines 155-167
PrintModel3 ==
    /\ pc = "print3"
    /\ output' = Printed("model3",
            <<coefficients_reno[1], coefficients_reno[2], lot_coef_reno,
              coefficients_reno[4], r_squared_reno>>)
    /\ pc' = "residuals"
    /\ UNCHANGED <<df, solver_calls, model1, model2, model3, analysis, baseline,
                   loop, verdict>>

\* lines 177-185: the residuals of Model 3 and their summary
ResidualAnalysis ==
    /\ pc = "residuals"
    /\ residuals_values' = Residuals(y, y_pred_reno)
    /\ mse' = MeanSquare(Residuals(y, y_pred_reno))
    /\ output' = Printed("residuals",
            <<MeanSquare(Residuals(y, y_pred_reno)), MeanAbs(Residuals(y, y_pred_reno))>>)
    /\ i' = 1
    /\ pc' = "rows"
    /\ UNCHANGED <<df, solver_calls, model1, model2, model3, baseline, loop, verdict>>

\* lines 186-191: one pass of the loop over df.iterrows()
ResidualRow ==
    /\ pc = "rows"
    /\ i <= Len(df)
    /\ output' = Printed("row",
            <<R(i), R(y[i]), y_pred_reno[i], residuals_values[i],
              PctError(residuals_values[i], y[i])>>)
    /\ i' = i + 1
    /\ pc' = IF i = Len(df) THEN "baseline" ELSE "rows"
    /\ UNCHANGED <<df, solver_calls, model1, model2, model3, residuals_values, mse,
                   baseline, loop, verdict>>

\* lines 208-215: the typical property
Baseline ==
    /\ pc = "baseline"
    /\ median_lot' = MedianLot(df)
    /\ typical_base_value' = TypicalBaseValue(df)
    /\ output' = Printed("baseline", <<TypicalBaseValue(df), MedianLot(df)>>)
    /\ k' = 1
    /\ pc' = "loop"
    /\ UNCHANGED <<df, solver_calls, model1, model2, model3, analysis, diff,
                   pct_adjustment, reg_adjustment, verdict>>

\* lines 220-231: one pass of the loop over lot_differences
Adjustment ==
    /\ pc = "loop"
    /\ k <= Len(lot_differences)
    /\ diff' = lot_differences[k]
    /\ pct_adjustment' = PctAdjustment(lot_differences[k], typical_base_value)
    /\ reg_adjustment' = RegAdjustment(lot_differences[k], lot_coef_reno)
    /\ output' = Printed("adjustment",
            <<R(lot_differences[k]), Add(median_lot, R(lot_differences[k])),
              PctAdjustment(lot_differences[k], typical_base_value),
              RegAdjustment(lot_differences[k], lot_coef_reno)>>)
    /\ k' = k + 1
    /\ pc' = IF k = Len(lot_differences) THEN "recommend" ELSE "loop"
    /\ UNCHANGED <<df, solver_calls, model1, model2, model3, analysis, baseline,
                   verdict>>

\* lines 241-248: the recommended adjustment and its rationale; the last value
\* stands for rmse / mean price, as its square mse / (mean price)^2
Recommend ==
    /\ pc = "recommend"
    /\ output' = Printed("recommendation",
            <<lot_coef_reno, Mul(r_squared_reno, R(100)), mse,
              Div(mse, Square(Mean([j \in 1..Len(df) |-> R(y[j])])))>>)
    /\ pc' = "hypothesis"
    /\ UNCHANGED <<df, solver_calls, model1, model2, model3, analysis, baseline,
                   loop, verdict>>

\* lines 250-257: the comparison with the $100-$200 hypothesis
Verdict ==
    /\ pc = "hypothesis"
    /\ verdict' = Hypothesis(lot_coef_reno)
    /\ output' = Printed("hypothesis", <<lot_coef_reno>>)
    /\ pc' = "alternative"
    /\ UNCHANGED <<df, solver_calls, model1, model2, model3, analysis, baseline, loop>>

\* lines 259-269: the percentage-based alternative, and the end of the script
Alternative ==
    /\ pc = "alternative"
    /\ output' = Printed("alternative",
            <<typical_base_value, Mul(<<1, 100>>, typical_base_value),
              Div(Mul(<<1, 100>>, typical_base_value), R(500))>>)
    /\ pc' = "done"
    /\ UNCHANGED <<df, solver_calls, model1, model2, model3, analysis, baseline,
                   loop, verdict>>

Next ==
    \/ Summary
    \/ FitModel1
    \/ FitModel1Raises
    \/ PrintModel1
    \/ FitModel2
    \/ PrintModel2
    \/ FitModel3
    \/ PrintModel3
    \/ ResidualAnalysis
    \/ ResidualRow
    \/ Baseline
    \/ Adjustment
    \/ Recommend
    \/ Verdict
    \/ Alternative

Spec == Init /\ [][Next]_vars

\* ------------------------------------------------------------ the claims

Entries(section) == { j \in 1..Len(output) : output[j].section = section }

FitSections == {"model1", "model2", "model3"}

\* the sections that consume the fitted models
LateSections ==
    {"residuals", "row", "baseline", "adjustment", "recommendation", "hypothesis",
     "alternative"}

\* the lot sizes the linearity of the percentage method is tried on
MaxDeltaSteps == 12

Deltas == { 100 * m : m \in (-MaxDeltaSteps)..MaxDeltaSteps }

\* C1: in the comparison loop, a lot-size difference of 0 gives a percentage
\* adjustment of exactly 0 and a regression adjustment of exactly 0, whatever
\* the baseline value and the Model 3 lot coefficient are.
C1_ZeroDeltaZeroAdjustment ==
    /\ (pct_adjustment # Unset /\ diff = 0) =>
           (pct_adjustment = R(0) /\ reg_adjustment = R(0))
    /\ \A j \in Entries("adjustment") :
           output[j].values[1] = R(0) =>
               (output[j].values[3] = R(0) /\ output[j].values[4] = R(0))

C1_Witness ==
    /\ pc = "loop"
    /\ pct_adjustment # Unset
    /\ diff = 0
    /\ typical_base_value # R(0)
    /\ lot_coef_reno # R(0)

\* C2: with the baseline value fixed, the percentage adjustment of 2 * d is
\* exactly twice that of d, for every lot-size difference d: for the differences
\* the loop has printed, and for every d of Deltas put to the same formula.
C2_PercentageLinearInDelta ==
    /\ \A a, b \in Entries("adjustment") :
           output[b].values[1] = Mul(R(2), output[a].values[1]) =>
               output[b].values[3] = Mul(R(2), output[a].values[3])
    /\ pc = "loop" =>
           \A d \in Deltas :
               PctAdjustment(2 * d, typical_base_value)
                   = Mul(R(2), PctAdjustment(d, typical_base_value))

C2_Witness ==
    /\ pc = "recommend"
    /\ typical_base_value # R(0)
    /\ \E a, b \in Entries("adjustment") :
           /\ output[a].values[1] = R(500)
           /\ output[b].values[1] = R(1000)
           /\ output[b].values[3] # output[a].values[3]

\* C3: the verdict classifies the Model 3 lot coefficient c = n/d against
\* [100, 200]: exactly one of the three verdicts is given, CONFIRMED iff
\* 100 <= c <= 200 (both bounds included), LOWER iff c < 100, HIGHER iff c > 200.
C3_VerdictClassifies ==
    verdict # "" =>
        LET n == lot_coef_reno[1]
            d == lot_coef_reno[2]
        IN  /\ d > 0
            /\ verdict \in {"CONFIRMED", "LOWER", "HIGHER"}
            /\ verdict = "CONFIRMED" <=>
                   (HypothesisLow * d <= n /\ n <= HypothesisHigh * d)
            /\ verdict = "LOWER" <=> n < HypothesisLow * d
            /\ verdict = "HIGHER" <=> n > HypothesisHigh * d

C3_Witness ==
    /\ verdict = "CONFIRMED"
    /\ lot_coef_reno = R(HypothesisLow)

\* the residual of sale j under coefficients b = <<intercept, building, lot,
\* renovated>> (a missing fourth coefficient counts as no renovation term)
FittedPrice(b, j) ==
    Add(Add(b[1], Mul(b[2], R(df[j].building_sqft))),
        Add(Mul(b[3], R(df[j].lot_sqft)),
            IF Len(b) = 4 /\ df[j].renovated THEN b[4] ELSE R(0)))

\* b is a least-squares solution in that order: the residuals are orthogonal to
\* the intercept, building, lot and renovation columns
LeastSquaresInOrder(b) ==
    LET res == Tup([j \in 1..Len(df) |-> Sub(R(df[j].price), FittedPrice(b, j))])
        n   == Len(df)
    IN  /\ RatSum(res) = R(0)
        /\ RatSum([j \in 1..n |-> Mul(res[j], R(df[j].building_sqft))]) = R(0)
        /\ RatSum([j \in 1..n |-> Mul(res[j], R(df[j].lot_sqft))]) = R(0)
        /\ Len(b) = 4 =>
               RatSum([j \in 1..n |-> IF df[j].renovated THEN res[j] ELSE R(0)]) = R(0)

\* C4: the coefficient vectors are ordered intercept, building, lot (and
\* renovation), and the value used for the regression adjustment, for the
\* recommended adjustment and for the verdict is the lot coefficient of Model 3.
C4_LotCoefficientOfRichestModel ==
    /\ pc = "print2" => (Len(coefficients) = 3 /\ LeastSquaresInOrder(coefficients))
    /\ pc = "print3" =>
           /\ Len(coefficients_reno) = 4
           /\ LeastSquaresInOrder(coefficients_reno)
           /\ \A j \in 1..Len(df) : y_pred_reno[j] = FittedPrice(coefficients_reno, j)
    /\ \A j \in Entries("adjustment") :
           output[j].values[4] = Mul(output[j].values[1], coefficients_reno[3])
    /\ reg_adjustment # Unset => reg_adjustment = Mul(R(diff), coefficients_reno[3])
    /\ \A j \in Entries("recommendation") : output[j].values[1] = coefficients_reno[3]
    /\ \A j \in Entries("hypothesis") : output[j].values[1] = coefficients_reno[3]
    /\ verdict # "" =>
           (verdict = "CONFIRMED" <=>
               /\ Leq(R(HypothesisLow), coefficients_reno[3])
               /\ Leq(coefficients_reno[3], R(HypothesisHigh)))

C4_Witness ==
    /\ pc = "done"
    /\ rank_reno = 4
    /\ coefficients_reno[3] \notin
           {slope, coefficients[3], coefficients_reno[2], coefficients_reno[4]}
    /\ verdict = "CONFIRMED"
    /\ \E j \in Entries("adjustment") : output[j].values[4] # R(0)

\* C5: a rank-deficient design ends the fit in an error: no coefficients of a
\* rank-deficient Model 2 or Model 3 fit exist for later stages to use.
C5_DegenerateFitAborts ==
    /\ coefficients # Unset => rank = Len(Model2Predictors) + 1
    /\ coefficients_reno # Unset => rank_reno = Len(Model3Predictors) + 1

\* C6: with fewer observations than Model 3 has parameters, no fit is attempted.
C6_InsufficientDataAborts ==
    Len(df) < Len(Model3Predictors) + 1 => solver_calls = <<>>

\* C7: no NaN and no infinity is ever printed.
C7_NoNonFiniteReported ==
    \A j \in 1..Len(output) :
        \A v \in 1..Len(output[j].values) : IsFinite(output[j].values[v])

\* C8, as claimed: fitted-model results are printed only once all three fits
\* have completed, and a failed run has printed nothing.
C8_ReportOnlyAfterAllFits ==
    /\ (\E j \in 1..Len(output) : output[j].section \in FitSections) =>
           (slope # Unset /\ coefficients # Unset /\ coefficients_reno # Unset)
    /\ pc = "failed" => output = <<>>

\* the order the sections are printed in
SectionRank(section) ==
    CASE section = "summary" -> 1
      [] section = "model1" -> 2
      [] section = "model2" -> 3
      [] section = "model3" -> 4
      [] section = "residuals" -> 5
      [] section = "row" -> 6
      [] section = "baseline" -> 7
      [] section = "adjustment" -> 8
      [] section = "recommendation" -> 9
      [] section = "hypothesis" -> 10
      [] section = "alternative" -> 11

\* C8, amended: the sections are printed in the order summary, Model 1, Model 2,
\* Model 3, residuals, comparison, recommendation; each model's results are
\* printed only after that model's own fit has completed (Model 1's before
\* Model 2 is fitted), the sections from the residual analysis on only after
\* all three fits; a failed fit ends the run, which has then printed the
\* dataset summary and no fitted-model results.
C8_ReportAfterOwnFit ==
    /\ \A a, b \in 1..Len(output) :
           a < b => SectionRank(output[a].section) <= SectionRank(output[b].section)
    /\ \A j \in 1..Len(output) :
           /\ output[j].section = "model1" =>
                  (slope # Unset /\ \A v \in 1..3 : output[j].values[v] # Unset)
           /\ output[j].section = "model2" => coefficients # Unset
           /\ output[j].section = "model3" => coefficients_reno # Unset
           /\ output[j].section \in LateSections =>
                  (slope # Unset /\ coefficients # Unset /\ coefficients_reno # Unset)
    /\ coefficients # Unset => Entries("model1") # {}
    /\ coefficients_reno # Unset => Entries("model2") # {}
    /\ pc = "failed" =>
           /\ ~ENABLED Next
           /\ \A j \in 1..Len(output) : output[j].section = "summary"

C8_Witness ==
    /\ pc = "fit2"
    /\ Entries("model1") # {}
    /\ coefficients = Unset
    /\ coefficients_reno = Unset

\* C9: under Model 3 every sale has exactly one predicted value and exactly one
\* residual, the residual is actual minus predicted, and the percent error
\* printed for a sale is its residual divided by its actual price, times 100.
C9_ResidualIsActualMinusPredicted ==
    /\ residuals_values # Unset =>
           /\ Len(y_pred_reno) = Len(df)
           /\ Len(residuals_values) = Len(df)
           /\ \A j \in 1..Len(df) :
                  /\ y_pred_reno[j] = FittedPrice(coefficients_reno, j)
                  /\ Add(y_pred_reno[j], residuals_values[j]) = R(df[j].price)
    /\ \A a \in Entries("row") :
           LET j == output[a].values[1][1]
           IN  /\ j \in 1..Len(df)
               /\ output[a].values[2] = R(df[j].price)
               /\ output[a].values[3] = y_pred_reno[j]
               /\ output[a].values[4] = Sub(R(df[j].price), y_pred_reno[j])
               /\ Mul(output[a].values[5], R(df[j].price))
                      = Mul(output[a].values[4], R(100))
               /\ \A b \in Entries("row") :
                      output[b].values[1] = output[a].values[1] => a = b
    /\ pc \in {"baseline", "loop", "recommend", "hypothesis", "alternative", "done"} =>
           Cardinality(Entries("row")) = Len(df)

C9_Witness ==
    /\ pc = "baseline"
    /\ \E j \in 1..Len(df) : Lt(R(0), residuals_values[j])
    /\ \E a \in Entries("row") : Lt(output[a].values[5], R(0))

RangeOf(s) == { s[j] : j \in 1..Len(s) }

\* C10, as claimed: the single-predictor design is fitted by both solvers.
C10_BothSolversFitModel1 ==
    pc = "done" =>
        /\ <<"linregress", Model1Predictors>> \in RangeOf(solver_calls)
        /\ <<"lstsq", Model1Predictors>> \in RangeOf(solver_calls)

\* C10, amended: the script fits the single-predictor design with the closed
\* form only (the general solver is run on the two- and three-predictor
\* designs only); the general solver, put to the same single-predictor design,
\* gives the closed form's slope and intercept whenever the lot sizes are not
\* all identical, and its R-squared whenever the prices are not all identical
\* either.
C10_ClosedFormAgreesWithLstsq ==
    /\ <<"lstsq", Model1Predictors>> \notin RangeOf(solver_calls)
    /\ slope # Unset => solver_calls[1] = <<"linregress", Model1Predictors>>
    /\ pc = "print1" =>
           LET lots == [j \in 1..Len(df) |-> df[j].lot_sqft]
               X    == Design(df, Model1Predictors)
               b    == Lstsq(X, y).x
           IN  ~AllIdentical(lots) =>
                   /\ slope = b[2]
                   /\ intercept = b[1]
                   /\ ~AllIdentical(y) => r_value_sq = RSquared(y, Predict(X, b))

C10_Witness ==
    /\ pc = "print1"
    /\ ~AllIdentical([j \in 1..Len(df) |-> df[j].lot_sqft])
    /\ ~AllIdentical(y)
    /\ slope # R(0)
    /\ Lt(R(0), r_value_sq)
    /\ Lt(r_value_sq, R(1))

====
